---- MODULE Spec2Model ----
(***************************************************************************)
(* Model of src/requesthandler/rpc/Request.cpp: the request validator of   *)
(* obs-websocket.  A Request is built from a raw JSON payload, and its     *)
(* Validate* methods check one parameter each, writing a status code and a *)
(* comment through output slots and, for the resource validators, handing  *)
(* back a reference-counted handle of the host application.                *)
(*                                                                         *)
(* JSON values are records [type, v].  Numbers are doubles; the model      *)
(* keeps them in units of one half (v = 3 is 1.5), so non-integers exist.  *)
(***************************************************************************)
EXTENDS Integers, Sequences, FiniteSets, TLC

\* Numbers in the payload range over -MaxNum..MaxNum halves.
MaxNum == 3

----------------------------------------------------------------------------
\* JSON values (nlohmann::json) ------------------------------------------------

JNull == [type |-> "null", v |-> <<>>]
JBool(b) == [type |-> "boolean", v |-> b]
JNum(h) == [type |-> "number", v |-> h]
JStr(s) == [type |-> "string", v |-> s]
JArr(a) == [type |-> "array", v |-> a]
JObj(f) == [type |-> "object", v |-> f]

EmptyMap == [k \in {} |-> JNull]

is_object(j) == j.type = "object"
is_null(j) == j.type = "null"
is_number(j) == j.type = "number"
is_string(j) == j.type = "string"
is_boolean(j) == j.type = "boolean"
is_array(j) == j.type = "array"
contains(j, keyName) == is_object(j) /\ keyName \in DOMAIN j.v

\* json::empty(): null is empty, object/array are empty with zero members,
\* every scalar is non-empty.
json_empty(j) ==
    CASE j.type = "null" -> TRUE
      [] j.type = "object" -> DOMAIN j.v = {}
      [] j.type = "array" -> Len(j.v) = 0
      [] OTHER -> FALSE

\* std::string::empty()
string_empty(s) == s = ""

\* Conversion of a JSON number (a double, in halves) to int64_t: truncation
\* toward zero.
ToInt64(h) == IF h >= 0 THEN h \div 2 ELSE -((-h) \div 2)

\* std::to_string(double): "%f", six decimals.
to_string_double(h) ==
    <<IF h < 0 THEN "-" ELSE "", (IF h < 0 THEN -h ELSE h) \div 2, ".",
      ((IF h < 0 THEN -h ELSE h) % 2) * 500000>>

\* std::to_string(int64_t)
to_string_int(i) == <<IF i < 0 THEN "-" ELSE "", IF i < 0 THEN -i ELSE i>>

----------------------------------------------------------------------------
\* The host application's resources (libobs), as seen through the calls the
\* validators make.

NoHandle == "nullptr"
NoItem == <<>>

SourceNames == {"Scene 1", "Group 1", "Input 1", "Filter 1"}

obs_source_get_type(h) ==
    CASE h \in {"Scene 1", "Group 1"} -> "OBS_SOURCE_TYPE_SCENE"
      [] h = "Input 1" -> "OBS_SOURCE_TYPE_INPUT"
      [] OTHER -> "OBS_SOURCE_TYPE_FILTER"

obs_source_is_group(h) == h = "Group 1"

\* Scene items, <<scene, id>>.
SceneItems == {<<"Scene 1", 0>>, <<"Scene 1", 1>>, <<"Group 1", 1>>}

obs_scene_from_source(h) ==
    IF h # NoHandle /\ obs_source_get_type(h) = "OBS_SOURCE_TYPE_SCENE" THEN h ELSE NoHandle

obs_scene_find_sceneitem_by_id(sc, id) ==
    IF sc # NoHandle /\ <<sc, id>> \in SceneItems THEN <<sc, id>> ELSE NoItem

\* Reference counts: rc.src per source, rc.item per scene item.  A scene and
\* its source share one count.
InitialRefs == [src |-> [s \in SourceNames |-> 1], item |-> [i \in SceneItems |-> 1]]

obs_source_addref(rc, h) ==
    IF h = NoHandle THEN rc ELSE [rc EXCEPT !.src[h] = @ + 1]

obs_source_release(rc, h) ==
    IF h = NoHandle THEN rc ELSE [rc EXCEPT !.src[h] = @ - 1]

obs_sceneitem_addref(rc, i) ==
    IF i = NoItem THEN rc ELSE [rc EXCEPT !.item[i] = @ + 1]

obs_sceneitem_release(rc, i) ==
    IF i = NoItem THEN rc ELSE [rc EXCEPT !.item[i] = @ - 1]

\* obs_get_source_by_name: the source of that name with a new reference, or
\* nullptr.
obs_get_source_by_name(rc, name) ==
    IF name \in SourceNames
    THEN [ret |-> name, rc |-> obs_source_addref(rc, name)]
    ELSE [ret |-> NoHandle, rc |-> rc]

----------------------------------------------------------------------------
\* The payloads a request can carry.

Keys == {"sceneName", "sceneItemId"}
QueryKeys == Keys \cup {"anything"}
Strings == {"", "Scene 1", "Group 1", "Input 1", "Filter 1", "Nope"}
Numbers == (-MaxNum)..MaxNum

Values ==
    {JNull, JBool(TRUE)} \cup {JNum(h) : h \in Numbers} \cup {JStr(s) : s \in Strings}
    \cup {JObj(EmptyMap), JObj([k \in {"a"} |-> JNull])}
    \cup {JArr(<<>>), JArr(<<JNull>>)}

Mappings == UNION {[D -> Values] : D \in SUBSET Keys}

Payloads == {JObj(f) : f \in Mappings} \cup {JNull, JArr(<<JNull>>), JStr("sceneName"), JNum(2)}

Filters == {"OBS_WEBSOCKET_SCENE_FILTER_NONE", "OBS_WEBSOCKET_SCENE_FILTER_SCENE_ONLY",
            "OBS_WEBSOCKET_SCENE_FILTER_GROUP_ONLY"}

\* Range arguments of ValidateNumber; Infinity stands for the default
\* maxValue, above every number of the model.
Infinity == 2 * MaxNum + 2
RangeBounds == {-2, 0, 1, Infinity}

----------------------------------------------------------------------------
VARIABLES
    rawData,       \* the payload given to the constructor
    RequestData,   \* Request::RequestData
    refs,          \* reference counts of the host's resources
    pc,            \* "idle", "returned", or a line of ValidateSceneItem
    call,          \* the validator running or just returned, with its arguments
    out,           \* the statusCode / comment slots of the caller
    retOk,         \* result of the boolean validators
    retSource,     \* result of ValidateSource / ValidateScene / ValidateInput
    retItem,       \* result of ValidateSceneItem
    refsBefore,    \* reference counts when the call started
    sceneSource,   \* locals of ValidateSceneItem
    scene,
    sceneItemId,
    sceneItem,
    sceneRef       \* the reference ValidateScene handed to ValidateSceneItem

vars == <<rawData, RequestData, refs, pc, call, out, retOk, retSource, retItem,
          refsBefore, sceneSource, scene, sceneItemId, sceneItem, sceneRef>>

\* An output slot nobody wrote to; writes counts the assignments to it.
Unset == [statusCode |-> "Unset", comment |-> <<>>, writes |-> 0]

SetStatus(o, code, text) == [statusCode |-> code, comment |-> text, writes |-> o.writes + 1]

----------------------------------------------------------------------------
\* Construction.

\* Variant: the payload is stored as given.
GetDefaultJsonObject_Identity(requestData) == requestData

GetDefaultJsonObject(requestData) ==
    IF ~is_object(requestData) THEN JObj(EmptyMap) ELSE requestData

\* Request::HasRequestData (declared in Request.h): the request data is a
\* valid mapping.
HasRequestData == is_object(RequestData)

----------------------------------------------------------------------------
\* The validators.  Each takes the caller's output slot o and returns it,
\* written or untouched, with the result.

\* Variant: a null value counts as present.
ValidateBasic_NullAccepted(keyName, o) ==
    IF ~HasRequestData
    THEN [ok |-> FALSE,
          out |-> SetStatus(o, "MissingRequestData",
                            <<"Your request data is missing or invalid (non-object)">>)]
    ELSE IF ~contains(RequestData, keyName)
    THEN [ok |-> FALSE,
          out |-> SetStatus(o, "MissingRequestParameter",
                            <<"Your request is missing the '", keyName, "' parameter.">>)]
    ELSE [ok |-> TRUE, out |-> o]

ValidateBasic(keyName, o) ==
    IF ~HasRequestData
    THEN [ok |-> FALSE,
          out |-> SetStatus(o, "MissingRequestData",
                            <<"Your request data is missing or invalid (non-object)">>)]
    ELSE IF ~contains(RequestData, keyName) \/ is_null(RequestData.v[keyName])
    THEN [ok |-> FALSE,
          out |-> SetStatus(o, "MissingRequestParameter",
                            <<"Your request is missing the '", keyName, "' parameter.">>)]
    ELSE [ok |-> TRUE, out |-> o]

\* Variant: the lower bound is exclusive.
ValidateNumber_Exclusive(keyName, o, minValue, maxValue) ==
    LET b == ValidateBasic(keyName, o) IN
    IF ~b.ok THEN [ok |-> FALSE, out |-> b.out]
    ELSE IF ~is_number(RequestData.v[keyName])
    THEN [ok |-> FALSE,
          out |-> SetStatus(b.out, "InvalidRequestParameterType",
                            <<"The parameter '", keyName, "' must be a number.">>)]
    ELSE LET value == RequestData.v[keyName].v IN
         IF value <= minValue
         THEN [ok |-> FALSE,
               out |-> SetStatus(b.out, "RequestParameterOutOfRange",
                                 <<"The parameter '", keyName, "' is below the minimum of '",
                                   to_string_double(minValue), "'">>)]
         ELSE IF value > maxValue
         THEN [ok |-> FALSE,
               out |-> SetStatus(b.out, "RequestParameterOutOfRange",
                                 <<"The parameter '", keyName, "' is above the maximum of '",
                                   to_string_double(maxValue), "'">>)]
         ELSE [ok |-> TRUE, out |-> b.out]

ValidateNumber(keyName, o, minValue, maxValue) ==
    LET b == ValidateBasic(keyName, o) IN
    IF ~b.ok THEN [ok |-> FALSE, out |-> b.out]
    ELSE IF ~is_number(RequestData.v[keyName])
    THEN [ok |-> FALSE,
          out |-> SetStatus(b.out, "InvalidRequestParameterType",
                            <<"The parameter '", keyName, "' must be a number.">>)]
    ELSE LET value == RequestData.v[keyName].v IN
         IF value < minValue
         THEN [ok |-> FALSE,
               out |-> SetStatus(b.out, "RequestParameterOutOfRange",
                                 <<"The parameter '", keyName, "' is below the minimum of '",
                                   to_string_double(minValue), "'">>)]
         ELSE IF value > maxValue
         THEN [ok |-> FALSE,
               out |-> SetStatus(b.out, "RequestParameterOutOfRange",
                                 <<"The parameter '", keyName, "' is above the maximum of '",
                                   to_string_double(maxValue), "'">>)]
         ELSE [ok |-> TRUE, out |-> b.out]

\* Variant: allowEmpty is ignored.
ValidateString_IgnoreAllowEmpty(keyName, o, allowEmpty) ==
    LET b == ValidateBasic(keyName, o) IN
    IF ~b.ok THEN [ok |-> FALSE, out |-> b.out]
    ELSE IF ~is_string(RequestData.v[keyName])
    THEN [ok |-> FALSE,
          out |-> SetStatus(b.out, "InvalidRequestParameterType",
                            <<"The parameter '", keyName, "' must be a string.">>)]
    ELSE IF string_empty(RequestData.v[keyName].v)
    THEN [ok |-> FALSE,
          out |-> SetStatus(b.out, "RequestParameterEmpty",
                            <<"The parameter '", keyName, "' must not be empty.">>)]
    ELSE [ok |-> TRUE, out |-> b.out]

ValidateString(keyName, o, allowEmpty) ==
    LET b == ValidateBasic(keyName, o) IN
    IF ~b.ok THEN [ok |-> FALSE, out |-> b.out]
    ELSE IF ~is_string(RequestData.v[keyName])
    THEN [ok |-> FALSE,
          out |-> SetStatus(b.out, "InvalidRequestParameterType",
                            <<"The parameter '", keyName, "' must be a string.">>)]
    ELSE IF string_empty(RequestData.v[keyName].v) /\ ~allowEmpty
    THEN [ok |-> FALSE,
          out |-> SetStatus(b.out, "RequestParameterEmpty",
                            <<"The parameter '", keyName, "' must not be empty.">>)]
    ELSE [ok |-> TRUE, out |-> b.out]

ValidateBoolean(keyName, o) ==
    LET b == ValidateBasic(keyName, o) IN
    IF ~b.ok THEN [ok |-> FALSE, out |-> b.out]
    ELSE IF ~is_boolean(RequestData.v[keyName])
    THEN [ok |-> FALSE,
          out |-> SetStatus(b.out, "InvalidRequestParameterType",
                            <<"The parameter '", keyName, "' must be boolean.">>)]
    ELSE [ok |-> TRUE, out |-> b.out]

ValidateObject(keyName, o, allowEmpty) ==
    LET b == ValidateBasic(keyName, o) IN
    IF ~b.ok THEN [ok |-> FALSE, out |-> b.out]
    ELSE IF ~is_object(RequestData.v[keyName])
    THEN [ok |-> FALSE,
          out |-> SetStatus(b.out, "InvalidRequestParameterType",
                            <<"The parameter '", keyName, "' must be an object.">>)]
    ELSE IF json_empty(RequestData.v[keyName]) /\ ~allowEmpty
    THEN [ok |-> FALSE,
          out |-> SetStatus(b.out, "RequestParameterEmpty",
                            <<"The parameter '", keyName, "' must not be empty.">>)]
    ELSE [ok |-> TRUE, out |-> b.out]

ValidateArray(keyName, o, allowEmpty) ==
    LET b == ValidateBasic(keyName, o) IN
    IF ~b.ok THEN [ok |-> FALSE, out |-> b.out]
    ELSE IF ~is_array(RequestData.v[keyName])
    THEN [ok |-> FALSE,
          out |-> SetStatus(b.out, "InvalidRequestParameterType",
                            <<"The parameter '", keyName, "' must be an array.">>)]
    ELSE IF json_empty(RequestData.v[keyName]) /\ ~allowEmpty
    THEN [ok |-> FALSE,
          out |-> SetStatus(b.out, "RequestParameterEmpty",
                            <<"The parameter '", keyName, "' must not be empty.">>)]
    ELSE [ok |-> TRUE, out |-> b.out]

\* The resource validators also take and return the reference counts rc.

\* Variant: a failure of ValidateString is reported as ResourceNotFound.
ValidateSource_Overwrite(keyName, o, rc) ==
    LET s == ValidateString(keyName, o, FALSE) IN
    IF ~s.ok
    THEN [ret |-> NoHandle,
          out |-> SetStatus(s.out, "ResourceNotFound",
                            <<"No source was found by the name of '", keyName, "'.">>),
          rc |-> rc]
    ELSE LET sourceName == RequestData.v[keyName].v
             g == obs_get_source_by_name(rc, sourceName) IN
         IF g.ret = NoHandle
         THEN [ret |-> NoHandle,
               out |-> SetStatus(s.out, "ResourceNotFound",
                                 <<"No source was found by the name of '", sourceName, "'.">>),
               rc |-> g.rc]
         ELSE [ret |-> g.ret, out |-> s.out, rc |-> g.rc]

ValidateSource(keyName, o, rc) ==
    LET s == ValidateString(keyName, o, FALSE) IN
    IF ~s.ok THEN [ret |-> NoHandle, out |-> s.out, rc |-> rc]
    ELSE LET sourceName == RequestData.v[keyName].v
             g == obs_get_source_by_name(rc, sourceName) IN
         IF g.ret = NoHandle
         THEN [ret |-> NoHandle,
               out |-> SetStatus(s.out, "ResourceNotFound",
                                 <<"No source was found by the name of '", sourceName, "'.">>),
               rc |-> g.rc]
         ELSE [ret |-> g.ret, out |-> s.out, rc |-> g.rc]

\* Variant: the two filters are exchanged.
ValidateScene_FilterSwapped(keyName, o, filter, rc) ==
    LET r == ValidateSource(keyName, o, rc) IN
    IF r.ret = NoHandle THEN [ret |-> NoHandle, out |-> r.out, rc |-> r.rc]
    ELSE IF obs_source_get_type(r.ret) # "OBS_SOURCE_TYPE_SCENE"
    THEN [ret |-> NoHandle,
          out |-> SetStatus(r.out, "InvalidResourceType", <<"The specified source is not a scene.">>),
          rc |-> obs_source_release(r.rc, r.ret)]
    ELSE LET isGroup == obs_source_is_group(r.ret) IN
         IF filter = "OBS_WEBSOCKET_SCENE_FILTER_GROUP_ONLY" /\ isGroup
         THEN [ret |-> NoHandle,
               out |-> SetStatus(r.out, "InvalidResourceType",
                                 <<"The specified source is not a scene.">>),
               rc |-> obs_source_release(r.rc, r.ret)]
         ELSE IF filter = "OBS_WEBSOCKET_SCENE_FILTER_SCENE_ONLY" /\ ~isGroup
         THEN [ret |-> NoHandle,
               out |-> SetStatus(r.out, "InvalidResourceType",
                                 <<"The specified source is not a group.">>),
               rc |-> obs_source_release(r.rc, r.ret)]
         ELSE [ret |-> r.ret, out |-> r.out, rc |-> r.rc]

ValidateScene(keyName, o, filter, rc) ==
    LET r == ValidateSource(keyName, o, rc) IN
    IF r.ret = NoHandle THEN [ret |-> NoHandle, out |-> r.out, rc |-> r.rc]
    ELSE IF obs_source_get_type(r.ret) # "OBS_SOURCE_TYPE_SCENE"
    THEN [ret |-> NoHandle,
          out |-> SetStatus(r.out, "InvalidResourceType", <<"The specified source is not a scene.">>),
          rc |-> obs_source_release(r.rc, r.ret)]
    ELSE LET isGroup == obs_source_is_group(r.ret) IN
         IF filter = "OBS_WEBSOCKET_SCENE_FILTER_SCENE_ONLY" /\ isGroup
         THEN [ret |-> NoHandle,
               out |-> SetStatus(r.out, "InvalidResourceType",
                                 <<"The specified source is not a scene.">>),
               rc |-> obs_source_release(r.rc, r.ret)]
         ELSE IF filter = "OBS_WEBSOCKET_SCENE_FILTER_GROUP_ONLY" /\ ~isGroup
         THEN [ret |-> NoHandle,
               out |-> SetStatus(r.out, "InvalidResourceType",
                                 <<"The specified source is not a group.">>),
               rc |-> obs_source_release(r.rc, r.ret)]
         ELSE [ret |-> r.ret, out |-> r.out, rc |-> r.rc]

\* Variant: the source that is not an input is not released.
ValidateInput_NoRelease(keyName, o, rc) ==
    LET r == ValidateSource(keyName, o, rc) IN
    IF r.ret = NoHandle THEN [ret |-> NoHandle, out |-> r.out, rc |-> r.rc]
    ELSE IF obs_source_get_type(r.ret) # "OBS_SOURCE_TYPE_INPUT"
    THEN [ret |-> NoHandle,
          out |-> SetStatus(r.out, "InvalidResourceType", <<"The specified source is not an input.">>),
          rc |-> r.rc]
    ELSE [ret |-> r.ret, out |-> r.out, rc |-> r.rc]

ValidateInput(keyName, o, rc) ==
    LET r == ValidateSource(keyName, o, rc) IN
    IF r.ret = NoHandle THEN [ret |-> NoHandle, out |-> r.out, rc |-> r.rc]
    ELSE IF obs_source_get_type(r.ret) # "OBS_SOURCE_TYPE_INPUT"
    THEN [ret |-> NoHandle,
          out |-> SetStatus(r.out, "InvalidResourceType", <<"The specified source is not an input.">>),
          rc |-> obs_source_release(r.rc, r.ret)]
    ELSE [ret |-> r.ret, out |-> r.out, rc |-> r.rc]

\* The scoped wrappers OBSSource / OBSScene / OBSSceneItem (OBSRef): the
\* constructor takes a reference of its own, the destructor drops it.
\* Variant: the wrapper adopts the pointer without a reference of its own.
OBSSourceCtor_NoAddRef(rc, h) == rc

OBSSourceCtor(rc, h) == obs_source_addref(rc, h)
OBSSourceDtor(rc, h) == obs_source_release(rc, h)
OBSSceneCtor(rc, sc) == obs_source_addref(rc, sc)
OBSSceneDtor(rc, sc) == obs_source_release(rc, sc)
OBSSceneItemCtor(rc, i) == obs_sceneitem_addref(rc, i)
OBSSceneItemDtor(rc, i) == obs_sceneitem_release(rc, i)

----------------------------------------------------------------------------
\* The state machine: a request is constructed, its validators are called
\* one at a time, and the caller releases the handle a validator returned
\* before it goes on.

NoCall == [op |-> "none", keyName |-> "", itemKey |-> "", filter |-> "OBS_WEBSOCKET_SCENE_FILTER_NONE",
           allowEmpty |-> FALSE, minValue |-> 0, maxValue |-> 0]

Init ==
    /\ rawData \in Payloads
    /\ RequestData = GetDefaultJsonObject(rawData)
    /\ refs = InitialRefs
    /\ pc = "idle"
    /\ call = NoCall
    /\ out = Unset
    /\ retOk = FALSE
    /\ retSource = NoHandle
    /\ retItem = NoItem
    /\ refsBefore = InitialRefs
    /\ sceneSource = NoHandle
    /\ scene = NoHandle
    /\ sceneItemId = 0
    /\ sceneItem = NoItem
    /\ sceneRef = "none"

SILocals == <<sceneSource, scene, sceneItemId, sceneItem, sceneRef>>

\* Request::Request
Construct ==
    /\ pc = "idle"
    /\ \E requestData \in Payloads :
         /\ rawData' = requestData
         /\ RequestData' = GetDefaultJsonObject(requestData)
    /\ UNCHANGED <<refs, pc, call, out, retOk, retSource, retItem, refsBefore>>
    /\ UNCHANGED SILocals

\* A boolean validator called with fresh output slots.
BoolCall(c, r) ==
    /\ pc = "idle"
    /\ pc' = "returned"
    /\ call' = c
    /\ out' = r.out
    /\ retOk' = r.ok
    /\ refsBefore' = refs
    /\ UNCHANGED <<rawData, RequestData, refs, retSource, retItem>>
    /\ UNCHANGED SILocals

\* A source validator called with fresh output slots.
SourceCall(c, r) ==
    /\ pc = "idle"
    /\ pc' = "returned"
    /\ call' = c
    /\ out' = r.out
    /\ retSource' = r.ret
    /\ refs' = r.rc
    /\ refsBefore' = refs
    /\ UNCHANGED <<rawData, RequestData, retOk, retItem>>
    /\ UNCHANGED SILocals

DoValidateBasic ==
    \E keyName \in QueryKeys :
       BoolCall([NoCall EXCEPT !.op = "ValidateBasic", !.keyName = keyName],
                ValidateBasic(keyName, Unset))

DoValidateNumber ==
    \E keyName \in QueryKeys, minValue \in RangeBounds, maxValue \in RangeBounds :
       BoolCall([NoCall EXCEPT !.op = "ValidateNumber", !.keyName = keyName,
                               !.minValue = minValue, !.maxValue = maxValue],
                ValidateNumber(keyName, Unset, minValue, maxValue))

DoValidateString ==
    \E keyName \in QueryKeys, allowEmpty \in BOOLEAN :
       BoolCall([NoCall EXCEPT !.op = "ValidateString", !.keyName = keyName, !.allowEmpty = allowEmpty],
                ValidateString(keyName, Unset, allowEmpty))

DoValidateBoolean ==
    \E keyName \in QueryKeys :
       BoolCall([NoCall EXCEPT !.op = "ValidateBoolean", !.keyName = keyName],
                ValidateBoolean(keyName, Unset))

DoValidateObject ==
    \E keyName \in QueryKeys, allowEmpty \in BOOLEAN :
       BoolCall([NoCall EXCEPT !.op = "ValidateObject", !.keyName = keyName, !.allowEmpty = allowEmpty],
                ValidateObject(keyName, Unset, allowEmpty))

DoValidateArray ==
    \E keyName \in QueryKeys, allowEmpty \in BOOLEAN :
       BoolCall([NoCall EXCEPT !.op = "ValidateArray", !.keyName = keyName, !.allowEmpty = allowEmpty],
                ValidateArray(keyName, Unset, allowEmpty))

DoValidateSource ==
    \E keyName \in QueryKeys :
       SourceCall([NoCall EXCEPT !.op = "ValidateSource", !.keyName = keyName],
                  ValidateSource(keyName, Unset, refs))

DoValidateScene ==
    \E keyName \in QueryKeys, filter \in Filters :
       SourceCall([NoCall EXCEPT !.op = "ValidateScene", !.keyName = keyName, !.filter = filter],
                  ValidateScene(keyName, Unset, filter, refs))

DoValidateInput ==
    \E keyName \in QueryKeys :
       SourceCall([NoCall EXCEPT !.op = "ValidateInput", !.keyName = keyName],
                  ValidateInput(keyName, Unset, refs))

\* Request::ValidateSceneItem, one statement at a time ----------------------

SIPcs == {"L204", "L205", "L208", "L211", "L213", "L215", "L216", "L222", "L223"}

\* return from ValidateSceneItem: the scoped locals are destroyed in reverse
\* order of construction (a wrapper that holds nothing releases nothing).
SIReturn(item, rc, o) ==
    /\ pc' = "returned"
    /\ retItem' = item
    /\ out' = o
    /\ refs' = OBSSourceDtor(OBSSceneDtor(OBSSceneItemDtor(rc, sceneItem), scene), sceneSource)
    /\ sceneSource' = NoHandle
    /\ scene' = NoHandle
    /\ sceneItem' = NoItem
    /\ sceneItemId' = 0
    /\ sceneRef' = IF sceneRef = "held" THEN "leaked" ELSE "none"
    /\ UNCHANGED <<rawData, RequestData, call, retOk, retSource, refsBefore>>

\* OBSSource sceneSource = ValidateScene(sceneKeyName, statusCode, comment, filter);
SI_L203 ==
    /\ pc = "idle"
    /\ \E sceneKeyName \in QueryKeys, sceneItemIdKeyName \in QueryKeys, filter \in Filters :
         LET r == ValidateScene(sceneKeyName, Unset, filter, refs) IN
         /\ call' = [NoCall EXCEPT !.op = "ValidateSceneItem", !.keyName = sceneKeyName,
                                   !.itemKey = sceneItemIdKeyName, !.filter = filter,
                                   !.maxValue = Infinity]
         /\ out' = r.out
         /\ sceneSource' = r.ret
         /\ sceneRef' = IF r.ret # NoHandle THEN "held" ELSE "none"
         /\ refs' = OBSSourceCtor(r.rc, r.ret)
    /\ refsBefore' = refs
    /\ pc' = "L204"
    /\ UNCHANGED <<rawData, RequestData, retOk, retSource, retItem, scene, sceneItemId, sceneItem>>

\* obs_source_release(sceneSource);
SI_L204 ==
    /\ pc = "L204"
    /\ refs' = obs_source_release(refs, sceneSource)
    /\ sceneRef' = IF sceneSource # NoHandle THEN "released" ELSE sceneRef
    /\ pc' = "L205"
    /\ UNCHANGED <<rawData, RequestData, call, out, retOk, retSource, retItem, refsBefore,
                   sceneSource, scene, sceneItemId, sceneItem>>

\* if (!sceneSource) return nullptr;
SI_L205 ==
    /\ pc = "L205"
    /\ IF sceneSource = NoHandle
       THEN SIReturn(NoItem, refs, out)
       ELSE /\ pc' = "L208"
            /\ UNCHANGED <<rawData, RequestData, refs, call, out, retOk, retSource, retItem, refsBefore>>
            /\ UNCHANGED SILocals

\* if (!ValidateNumber(sceneItemIdKeyName, statusCode, comment, 0)) return nullptr;
SI_L208 ==
    /\ pc = "L208"
    /\ LET n == ValidateNumber(call.itemKey, out, 0, call.maxValue) IN
       IF ~n.ok
       THEN SIReturn(NoItem, refs, n.out)
       ELSE /\ pc' = "L211"
            /\ out' = n.out
            /\ UNCHANGED <<rawData, RequestData, refs, call, retOk, retSource, retItem, refsBefore>>
            /\ UNCHANGED SILocals

\* OBSScene scene = obs_scene_from_source(sceneSource);
SI_L211 ==
    /\ pc = "L211"
    /\ scene' = obs_scene_from_source(sceneSource)
    /\ refs' = OBSSceneCtor(refs, obs_scene_from_source(sceneSource))
    /\ pc' = "L213"
    /\ UNCHANGED <<rawData, RequestData, call, out, retOk, retSource, retItem, refsBefore,
                   sceneSource, sceneItemId, sceneItem, sceneRef>>

\* int64_t sceneItemId = RequestData[sceneItemIdKeyName];
SI_L213 ==
    /\ pc = "L213"
    /\ sceneItemId' = ToInt64(RequestData.v[call.itemKey].v)
    /\ pc' = "L215"
    /\ UNCHANGED <<rawData, RequestData, refs, call, out, retOk, retSource, retItem, refsBefore,
                   sceneSource, scene, sceneItem, sceneRef>>

\* OBSSceneItem sceneItem = obs_scene_find_sceneitem_by_id(scene, sceneItemId);
SI_L215 ==
    /\ pc = "L215"
    /\ sceneItem' = obs_scene_find_sceneitem_by_id(scene, sceneItemId)
    /\ refs' = OBSSceneItemCtor(refs, obs_scene_find_sceneitem_by_id(scene, sceneItemId))
    /\ pc' = "L216"
    /\ UNCHANGED <<rawData, RequestData, call, out, retOk, retSource, retItem, refsBefore,
                   sceneSource, scene, sceneItemId, sceneRef>>

\* if (!sceneItem) { statusCode = ResourceNotFound; comment = ...; return nullptr; }
SI_L216 ==
    /\ pc = "L216"
    /\ IF sceneItem = NoItem
       THEN SIReturn(NoItem, refs,
                     SetStatus(out, "ResourceNotFound",
                               <<"No scene items were found in scene '", RequestData.v[call.keyName].v,
                                 "' with the ID '", to_string_int(sceneItemId), "'.">>))
       ELSE /\ pc' = "L222"
            /\ UNCHANGED <<rawData, RequestData, refs, call, out, retOk, retSource, retItem, refsBefore>>
            /\ UNCHANGED SILocals

\* obs_sceneitem_addref(sceneItem);
SI_L222 ==
    /\ pc = "L222"
    /\ refs' = obs_sceneitem_addref(refs, sceneItem)
    /\ pc' = "L223"
    /\ UNCHANGED <<rawData, RequestData, call, out, retOk, retSource, retItem, refsBefore>>
    /\ UNCHANGED SILocals

\* return sceneItem;
SI_L223 ==
    /\ pc = "L223"
    /\ SIReturn(sceneItem, refs, out)

\* The caller is done with the result: it releases the handle it was given
\* and the next call starts with fresh output slots.
CallerDone ==
    /\ pc = "returned"
    /\ pc' = "idle"
    /\ refs' = obs_sceneitem_release(obs_source_release(refs, retSource), retItem)
    /\ call' = NoCall
    /\ out' = Unset
    /\ retOk' = FALSE
    /\ retSource' = NoHandle
    /\ retItem' = NoItem
    /\ refsBefore' = refs'
    /\ sceneRef' = "none"
    /\ UNCHANGED <<rawData, RequestData, sceneSource, scene, sceneItemId, sceneItem>>

Next ==
    \/ Construct
    \/ DoValidateBasic
    \/ DoValidateNumber
    \/ DoValidateString
    \/ DoValidateBoolean
    \/ DoValidateObject
    \/ DoValidateArray
    \/ DoValidateSource
    \/ DoValidateScene
    \/ DoValidateInput
    \/ SI_L203
    \/ SI_L204
    \/ SI_L205
    \/ SI_L208
    \/ SI_L211
    \/ SI_L213
    \/ SI_L215
    \/ SI_L216
    \/ SI_L222
    \/ SI_L223
    \/ CallerDone

Spec == Init /\ [][Next]_vars

TypeOK ==
    /\ pc \in {"idle", "returned"} \cup SIPcs
    /\ retSource \in SourceNames \cup {NoHandle}
    /\ retItem \in SceneItems \cup {NoItem}
    /\ \A s \in SourceNames : refs.src[s] >= 1
    /\ \A i \in SceneItems : refs.item[i] >= 1

----------------------------------------------------------------------------
\* Properties.

Returned(op) == pc = "returned" /\ call.op = op

\* The value stored under a key of the request data (null when absent).
ValueOf(keyName) == IF contains(RequestData, keyName) THEN RequestData.v[keyName] ELSE JNull

\* C1: ValidateBasic(key) fails with MissingRequestParameter when the key is
\* absent from the request data (always so for a non-mapping payload) or null,
\* succeeds without touching the output slots when the key holds a non-null
\* value, and never reports MissingRequestData.
C1_ValidateBasic ==
    Returned("ValidateBasic") =>
        LET present == /\ is_object(rawData)
                       /\ call.keyName \in DOMAIN rawData.v
                       /\ rawData.v[call.keyName].type # "null" IN
        /\ present => (retOk /\ out = Unset)
        /\ ~present => (~retOk /\ out.statusCode = "MissingRequestParameter")
        /\ out.statusCode # "MissingRequestData"

C1_Witness ==
    /\ Returned("ValidateBasic")
    /\ rawData = JObj([k \in {"sceneName"} |-> JNull])
    /\ call.keyName = "sceneName"
    /\ ~retOk
    /\ out.statusCode = "MissingRequestParameter"

\* C2: when ValidateSource, ValidateScene, ValidateInput or ValidateSceneItem
\* has returned, a failure leaves every reference count as it was before the
\* call, and a success leaves one extra reference on the returned handle and
\* nothing else changed (so the scene of a returned scene item is unchanged).
C2_RefCounts ==
    (pc = "returned" /\ call.op \in {"ValidateSource", "ValidateScene", "ValidateInput",
                                     "ValidateSceneItem"}) =>
        /\ (retSource = NoHandle /\ retItem = NoItem) => refs = refsBefore
        /\ retSource # NoHandle =>
              refs = [refsBefore EXCEPT !.src[retSource] = refsBefore.src[retSource] + 1]
        /\ retItem # NoItem =>
              refs = [refsBefore EXCEPT !.item[retItem] = refsBefore.item[retItem] + 1]

C2_Witness ==
    /\ Returned("ValidateSceneItem")
    /\ retItem = <<"Scene 1", 1>>
    /\ refs.item[retItem] = refsBefore.item[retItem] + 1
    /\ refs.src["Scene 1"] = refsBefore.src["Scene 1"]

\* C3: ValidateNumber(key, min, max) succeeds exactly when the key holds a
\* number with min <= value <= max, both bounds included; a number outside
\* the range fails with RequestParameterOutOfRange and a non-null value that
\* is not a number with InvalidRequestParameterType.
C3_ValidateNumber ==
    Returned("ValidateNumber") =>
        LET j == ValueOf(call.keyName)
            inRange == j.type = "number" /\ call.minValue <= j.v /\ j.v <= call.maxValue IN
        /\ retOk <=> inRange
        /\ (j.type = "number" /\ ~inRange) => (~retOk /\ out.statusCode = "RequestParameterOutOfRange")
        /\ j.type \notin {"number", "null"} =>
              (~retOk /\ out.statusCode = "InvalidRequestParameterType")

C3_Witness ==
    /\ Returned("ValidateNumber")
    /\ ValueOf(call.keyName).type = "number"
    /\ ValueOf(call.keyName).v = call.minValue
    /\ call.minValue < call.maxValue
    /\ retOk

\* C4: for a key naming an existing source, ValidateScene returns the handle
\* exactly when the source is a scene that passes the filter (scene-only
\* rejects groups, group-only rejects non-groups, no filter accepts both), and
\* fails with InvalidResourceType otherwise.
C4_SceneFilter ==
    (Returned("ValidateScene") /\ ValueOf(call.keyName).type = "string"
        /\ ValueOf(call.keyName).v \in SourceNames) =>
        LET h == ValueOf(call.keyName).v
            isScene == h \in {"Scene 1", "Group 1"}
            isGroup == h = "Group 1"
            accepted == /\ isScene
                        /\ call.filter = "OBS_WEBSOCKET_SCENE_FILTER_SCENE_ONLY" => ~isGroup
                        /\ call.filter = "OBS_WEBSOCKET_SCENE_FILTER_GROUP_ONLY" => isGroup IN
        /\ accepted => retSource = h
        /\ ~accepted => (retSource = NoHandle /\ out.statusCode = "InvalidResourceType")

C4_Witness ==
    /\ Returned("ValidateScene")
    /\ ValueOf(call.keyName) = JStr("Scene 1")
    /\ call.filter = "OBS_WEBSOCKET_SCENE_FILTER_GROUP_ONLY"
    /\ retSource = NoHandle
    /\ out.statusCode = "InvalidResourceType"

\* C5: ValidateSceneItem returns a scene item exactly when the scene
\* validates, the item id is a number >= 0 and the scene has an item with
\* that id, and it returns that item; a scene that does not validate gives
\* the scene validation's own outcome, a negative id
\* RequestParameterOutOfRange, an id no item of the scene has
\* ResourceNotFound.
C5_SceneItem ==
    Returned("ValidateSceneItem") =>
        LET sc == ValidateScene(call.keyName, Unset, call.filter, refsBefore)
            j == ValueOf(call.itemKey)
            sceneOk == sc.ret # NoHandle
            idOk == j.type = "number" /\ j.v >= 0
            hasItem == idOk /\ \E i \in SceneItems : i[1] = sc.ret /\ 2 * i[2] = j.v IN
        /\ retItem # NoItem <=> (sceneOk /\ idOk /\ hasItem)
        /\ retItem # NoItem => (retItem[1] = sc.ret /\ 2 * retItem[2] = j.v)
        /\ ~sceneOk => out = sc.out
        /\ (sceneOk /\ j.type = "number" /\ j.v < 0) =>
              out.statusCode = "RequestParameterOutOfRange"
        /\ (sceneOk /\ idOk /\ ~hasItem) => out.statusCode = "ResourceNotFound"

\* C10: whenever ValidateSceneItem succeeds, the id of the returned scene
\* item equals the number stored under the item id key, so a non-integer
\* value never resolves to a scene item.
C10_ItemIdIsValue ==
    (Returned("ValidateSceneItem") /\ retItem # NoItem) =>
        2 * retItem[2] = ValueOf(call.itemKey).v

\* The checks of a validator, each stated on its own as a condition on the
\* request data, listed in the order presence, type, emptiness / range,
\* resource existence, resource kind / filter.
Check(fails, code, text) == [fails |-> fails, code |-> code, comment |-> text]

PresenceCheck(k) ==
    Check(~contains(RequestData, k) \/ ValueOf(k).type = "null", "MissingRequestParameter",
          <<"Your request is missing the '", k, "' parameter.">>)

TypeCheck(k, t, text) ==
    Check(ValueOf(k).type # t, "InvalidRequestParameterType", <<"The parameter '", k, text>>)

EmptyCheck(k, allowEmpty) ==
    LET j == ValueOf(k) IN
    Check(/\ ~allowEmpty
          /\ \/ j.type = "string" /\ j.v = ""
             \/ j.type = "object" /\ DOMAIN j.v = {}
             \/ j.type = "array" /\ Len(j.v) = 0,
          "RequestParameterEmpty", <<"The parameter '", k, "' must not be empty.">>)

BelowCheck(k, minValue) ==
    LET j == ValueOf(k) IN
    Check(j.type = "number" /\ j.v < minValue, "RequestParameterOutOfRange",
          <<"The parameter '", k, "' is below the minimum of '", to_string_double(minValue), "'">>)

AboveCheck(k, maxValue) ==
    LET j == ValueOf(k) IN
    Check(j.type = "number" /\ j.v > maxValue, "RequestParameterOutOfRange",
          <<"The parameter '", k, "' is above the maximum of '", to_string_double(maxValue), "'">>)

ExistenceCheck(k) ==
    LET j == ValueOf(k) IN
    Check(~(j.type = "string" /\ j.v \in SourceNames), "ResourceNotFound",
          <<"No source was found by the name of '", j.v, "'.">>)

KindCheck(k, names, text) ==
    LET j == ValueOf(k) IN
    Check(~(j.type = "string" /\ j.v \in names), "InvalidResourceType", <<text>>)

FilterCheck(k, filter) ==
    LET j == ValueOf(k)
        isGroup == j.type = "string" /\ j.v = "Group 1" IN
    IF filter = "OBS_WEBSOCKET_SCENE_FILTER_GROUP_ONLY"
    THEN Check(~isGroup, "InvalidResourceType", <<"The specified source is not a group.">>)
    ELSE Check(filter = "OBS_WEBSOCKET_SCENE_FILTER_SCENE_ONLY" /\ isGroup, "InvalidResourceType",
               <<"The specified source is not a scene.">>)

ItemCheck(k, ik) ==
    LET j == ValueOf(ik)
        id == IF j.type = "number" THEN ToInt64(j.v) ELSE 0
        name == IF ValueOf(k).type = "string" THEN ValueOf(k).v ELSE "" IN
    Check(~(<<name, id>> \in SceneItems), "ResourceNotFound",
          <<"No scene items were found in scene '", name, "' with the ID '",
            to_string_int(id), "'.">>)

SourceChecks(k) ==
    <<PresenceCheck(k), TypeCheck(k, "string", "' must be a string."), EmptyCheck(k, FALSE),
      ExistenceCheck(k)>>

SceneChecks(k, filter) ==
    SourceChecks(k) \o <<KindCheck(k, {"Scene 1", "Group 1"}, "The specified source is not a scene."),
                         FilterCheck(k, filter)>>

ChecksOf(c) ==
    CASE c.op = "ValidateBasic" -> <<PresenceCheck(c.keyName)>>
      [] c.op = "ValidateNumber" ->
            <<PresenceCheck(c.keyName), TypeCheck(c.keyName, "number", "' must be a number."),
              BelowCheck(c.keyName, c.minValue), AboveCheck(c.keyName, c.maxValue)>>
      [] c.op = "ValidateString" ->
            <<PresenceCheck(c.keyName), TypeCheck(c.keyName, "string", "' must be a string."),
              EmptyCheck(c.keyName, c.allowEmpty)>>
      [] c.op = "ValidateBoolean" ->
            <<PresenceCheck(c.keyName), TypeCheck(c.keyName, "boolean", "' must be boolean.")>>
      [] c.op = "ValidateObject" ->
            <<PresenceCheck(c.keyName), TypeCheck(c.keyName, "object", "' must be an object."),
              EmptyCheck(c.keyName, c.allowEmpty)>>
      [] c.op = "ValidateArray" ->
            <<PresenceCheck(c.keyName), TypeCheck(c.keyName, "array", "' must be an array."),
              EmptyCheck(c.keyName, c.allowEmpty)>>
      [] c.op = "ValidateSource" -> SourceChecks(c.keyName)
      [] c.op = "ValidateScene" -> SceneChecks(c.keyName, c.filter)
      [] c.op = "ValidateInput" ->
            SourceChecks(c.keyName)
            \o <<KindCheck(c.keyName, {"Input 1"}, "The specified source is not an input.")>>
      [] c.op = "ValidateSceneItem" ->
            SceneChecks(c.keyName, c.filter)
            \o <<PresenceCheck(c.itemKey), TypeCheck(c.itemKey, "number", "' must be a number."),
                 BelowCheck(c.itemKey, 0), ItemCheck(c.keyName, c.itemKey)>>
      [] OTHER -> <<>>

\* Index of the first failing check, 0 when all pass.
FirstFailing(cs) ==
    LET F == {i \in 1..Len(cs) : cs[i].fails} IN
    IF F = {} THEN 0 ELSE CHOOSE i \in F : \A k \in F : i <= k

CallFailed ==
    CASE call.op \in {"ValidateSource", "ValidateScene", "ValidateInput"} -> retSource = NoHandle
      [] call.op = "ValidateSceneItem" -> retItem = NoItem
      [] OTHER -> ~retOk

\* C6: a validator fails exactly when one of its checks fails, the status
\* code and comment it returns are those of the first failing check in the
\* fixed order, written once and never overwritten; when every check passes
\* the output slots are untouched.
C6_FirstFailure ==
    /\ out.writes <= 1
    /\ (pc = "returned" /\ call.op # "none") =>
          LET cs == ChecksOf(call)
              f == FirstFailing(cs) IN
          IF f = 0
          THEN ~CallFailed /\ out = Unset
          ELSE /\ CallFailed
               /\ out = [statusCode |-> cs[f].code, comment |-> cs[f].comment, writes |-> 1]

C6_Witness ==
    /\ Returned("ValidateScene")
    /\ ValueOf(call.keyName) = JStr("")
    /\ retSource = NoHandle
    /\ out.statusCode = "RequestParameterEmpty"
    /\ out.writes = 1

\* C7: the request data is the empty mapping when the payload is not a
\* mapping, the payload itself when it is one, and normalizing the request
\* data again gives the request data.
C7_Normalization ==
    /\ ~is_object(rawData) => RequestData = JObj(EmptyMap)
    /\ is_object(rawData) => RequestData = rawData
    /\ GetDefaultJsonObject(RequestData) = RequestData

C7_Witness ==
    /\ rawData = JArr(<<JNull>>)
    /\ RequestData = JObj(EmptyMap)
    /\ pc = "returned"

\* C8: for a key holding a string, ValidateString without allowEmpty fails
\* with RequestParameterEmpty exactly when the string has zero length and
\* succeeds otherwise, and with allowEmpty it always succeeds; likewise
\* ValidateObject / ValidateArray for a key holding an object / array with
\* zero members / elements.
C8_Emptiness ==
    LET j == ValueOf(call.keyName)
        isEmpty == CASE j.type = "string" -> j.v = ""
                     [] j.type = "object" -> Cardinality(DOMAIN j.v) = 0
                     [] j.type = "array" -> Len(j.v) = 0
                     [] OTHER -> FALSE IN
    (pc = "returned" /\ \/ call.op = "ValidateString" /\ j.type = "string"
                        \/ call.op = "ValidateObject" /\ j.type = "object"
                        \/ call.op = "ValidateArray" /\ j.type = "array") =>
        /\ call.allowEmpty => retOk
        /\ ~call.allowEmpty =>
              /\ isEmpty <=> (~retOk /\ out.statusCode = "RequestParameterEmpty")
              /\ ~isEmpty => retOk

C8_Witness ==
    /\ Returned("ValidateString")
    /\ ValueOf(call.keyName) = JStr("")
    /\ call.allowEmpty
    /\ retOk

\* C9 as stated: in ValidateSceneItem the reference ValidateScene handed
\* back is not released before the scene container has been obtained.
C9_ReleaseAfterContainer ==
    sceneRef = "released" => scene # NoHandle

\* C9 as the code has it: the reference ValidateScene handed back is released
\* before the container is obtained; when the container is obtained, and
\* as long as it is in use, the scene is held by the reference the scoped
\* sceneSource wrapper took for itself.
C9_HeldByWrapper ==
    /\ pc = "L211" =>
          /\ sceneRef = "released"
          /\ refs.src[sceneSource] = refsBefore.src[sceneSource] + 1
    /\ (pc \in SIPcs /\ scene # NoHandle) =>
          /\ sceneRef = "released"
          /\ scene = sceneSource
          /\ refs.src[sceneSource] > refsBefore.src[sceneSource]

C9_Witness ==
    /\ pc = "L215"
    /\ scene = "Group 1"
    /\ sceneRef = "released"

====
